---- MODULE Spec2Model ----
(***************************************************************************)
(* A model of the XML -> XAML converter: the colour normaliser, the visual *)
(* property resolver, the parse_xml pass, the structural validator, the    *)
(* two batches of main_program and the comparator's choose_match.          *)
(*                                                                         *)
(* Text is modelled as a sequence of one-character strings, so that        *)
(* formatting and parsing are computed and not assumed.  <<"None">> is     *)
(* Python's None and <<"Absent">> an element that find() does not locate;  *)
(* neither is a text, since every character of a text has length one.      *)
(***************************************************************************)
EXTENDS Integers, Sequences, FiniteSets, TLC

VARIABLES
    \* decimal_to_hex call
    color_val, hex_out, hpc,
    \* parse_xml: the module's dictionaries, the pass's locals, its position
    parent_dict, shape_dict, crule_dict,
    counter, canvas_elements, min_x, max_x, min_y, max_y,
    symbol_key, sysname, idx, canvas_size, ppc, exc,
    \* history of the pass: ViewObjects and ShapeObjects visited, the
    \* rectangles processed, the last ShapeObject and what became of it
    nviews, nshapes, rects_seen, last,
    \* history of the current ViewObject: the positions of the ShapeObjects a
    \* branch ran through, the RULE children read; and the passes before this
    view_keys, view_rules, npass,
    \* validate_conversion: the two files, the sets gathered from the output,
    \* the mismatches, the position in the source's elements, the verdict
    xml_doc, xaml_doc, xaml_tags, xaml_attributes, mismatches, vi, vpc, verdict,
    \* the batches: the entry point, the input files, the output folder, the
    \* position in the loop, the files parse_xml returned for, the verdict of
    \* each validation, the log, the exception that ended the process
    entry, files, outputs, fi, bpc, converted, verdicts, blog, bexc,
    \* choose_match: the candidates, the position, the prompts issued, the
    \* text last entered, what was returned, the exception that left it
    matches, cpc, prompts, choice, chosen, cexc

hexVars == <<color_val, hex_out, hpc>>
dictVars == <<parent_dict, shape_dict, crule_dict>>
extentVars == <<min_x, max_x, min_y, max_y>>
passVars == <<counter, canvas_elements, symbol_key, sysname, idx, canvas_size,
              ppc, exc>>
histVars == <<nviews, nshapes, rects_seen, last, view_keys, view_rules, npass>>
parseVars == <<dictVars, extentVars, passVars, histVars>>
valVars == <<xml_doc, xaml_doc, xaml_tags, xaml_attributes, mismatches, vi,
             vpc, verdict>>
batchVars == <<entry, files, outputs, fi, bpc, converted, verdicts, blog, bexc>>
chooseVars == <<matches, cpc, prompts, choice, chosen, cexc>>
vars == <<hexVars, parseVars, valVars, batchVars, chooseVars>>

\* What the actions of one component leave alone.
notHex == <<parseVars, valVars, batchVars, chooseVars>>
notParse == <<hexVars, valVars, batchVars, chooseVars>>
notVal == <<hexVars, parseVars, batchVars, chooseVars>>
notBatch == <<hexVars, parseVars, valVars, chooseVars>>
notChoose == <<hexVars, parseVars, valVars, batchVars>>

---------------------------------------------------------------------------
\* Bounds of the model.

\* Longest colour text handed to decimal_to_hex.
MaxLen == 3
\* ViewObjects of one document.
MaxViews == 2
\* ShapeObjects of one document, over all its ViewObjects.
MaxShapes == 2
\* Elements of a source document handed to validate_conversion.
MaxElems == 2
\* Files of the input folder.
MaxFiles == 2
\* Files main_program hands to parse_xml one after the other.
MaxPasses == 2
\* Candidates handed to choose_match.
MaxMatches == 3
\* Prompts choose_match issues in one call.
MaxPrompts == 2
\* Longest text entered at a prompt.
MaxChoiceLen == 2

---------------------------------------------------------------------------
\* Text helpers.

None == <<"None">>
Absent == <<"Absent">>

Digits == {"0", "1", "2", "3", "4", "5", "6", "7", "8", "9"}

DigitVal(c) ==
    CASE c = "0" -> 0 [] c = "1" -> 1 [] c = "2" -> 2 [] c = "3" -> 3
      [] c = "4" -> 4 [] c = "5" -> 5 [] c = "6" -> 6 [] c = "7" -> 7
      [] c = "8" -> 8 [] c = "9" -> 9

HexChars == <<"0", "1", "2", "3", "4", "5", "6", "7", "8", "9",
              "A", "B", "C", "D", "E", "F">>

\* All texts over alphabet A of length at most n.
Texts(A, n) == UNION {[1 .. k -> A] : k \in 0 .. n}

\* str.strip(): leading and trailing blanks removed.
RECURSIVE LStrip(_)
LStrip(s) == IF s # <<>> /\ Head(s) = " " THEN LStrip(Tail(s)) ELSE s

RECURSIVE RStrip(_)
RStrip(s) ==
    IF s # <<>> /\ s[Len(s)] = " " THEN RStrip(SubSeq(s, 1, Len(s) - 1)) ELSE s

Strip(s) == LStrip(RStrip(s))

\* The digits of a literal with its underscores dropped.
RECURSIVE DropUnderscores(_)
DropUnderscores(s) ==
    IF s = <<>> THEN <<>>
    ELSE IF Head(s) = "_" THEN DropUnderscores(Tail(s))
    ELSE <<Head(s)>> \o DropUnderscores(Tail(s))

RECURSIVE DigitsValue(_)
DigitsValue(s) ==
    IF s = <<>> THEN 0
    ELSE 10 * DigitsValue(SubSeq(s, 1, Len(s) - 1)) + DigitVal(s[Len(s)])

\* The unsigned part of an int() literal: digits, single underscores between.
IsDigitRun(b) ==
    /\ b # <<>>
    /\ \A i \in 1 .. Len(b) : b[i] \in Digits \cup {"_"}
    /\ b[1] \in Digits
    /\ b[Len(b)] \in Digits
    /\ \A i \in 1 .. Len(b) - 1 : ~(b[i] = "_" /\ b[i + 1] = "_")

\* int(s) succeeds: blanks around, one optional sign, a digit run.
IntParses(s) ==
    LET t == Strip(s) IN
    /\ t # <<>>
    /\ IsDigitRun(IF t[1] \in {"+", "-"} THEN Tail(t) ELSE t)

\* int(s) where it succeeds.
IntValue(s) ==
    LET t == Strip(s)
        neg == t[1] = "-"
        b == IF t[1] \in {"+", "-"} THEN Tail(t) ELSE t
        v == DigitsValue(DropUnderscores(b))
    IN IF neg THEN 0 - v ELSE v

RECURSIVE DecDigits(_)
DecDigits(n) ==
    IF n < 10 THEN <<HexChars[n + 1]>>
    ELSE DecDigits(n \div 10) \o <<HexChars[(n % 10) + 1]>>

\* str(n) / "{}".format(n) of an integer.
IntToStr(n) == IF n < 0 THEN <<"-">> \o DecDigits(0 - n) ELSE DecDigits(n)

RECURSIVE HexDigits(_)
HexDigits(n) ==
    IF n < 16 THEN <<HexChars[n + 1]>>
    ELSE HexDigits(n \div 16) \o <<HexChars[(n % 16) + 1]>>

RECURSIVE Zeros(_)
Zeros(k) == IF k <= 0 THEN <<>> ELSE <<"0">> \o Zeros(k - 1)

\* "{:06d}".format(n): the same columns in decimal digits.
Format06D(n) ==
    LET sign == IF n < 0 THEN <<"-">> ELSE <<>>
        d == DecDigits(IF n < 0 THEN 0 - n ELSE n)
    IN sign \o Zeros(6 - Len(sign) - Len(d)) \o d

\* "{:06X}".format(n): upper-case hex, zero-padded to six columns, the sign
\* of a negative number taking the first column.
Format06X(n) ==
    LET sign == IF n < 0 THEN <<"-">> ELSE <<>>
        d == HexDigits(IF n < 0 THEN 0 - n ELSE n)
    IN sign \o Zeros(6 - Len(sign) - Len(d)) \o d

Gray == <<"#", "8", "0", "8", "0", "8", "0">>

---------------------------------------------------------------------------
\* Colour normaliser.

decimal_to_hex(v) ==
    IF v = None \/ v = <<>> THEN Gray
    ELSE IF IntParses(v) THEN <<"#">> \o Format06X(IntValue(v))
    ELSE Gray

---------------------------------------------------------------------------
\* Dictionaries: functions from keys to values.

EmptyDict == <<>>

\* d.update(e)
Update(d, e) == e @@ d

\* A clear() that is left out.
ClearSkipped(d) == d

\* d.clear()
Clear(d) == EmptyDict

\* d.get(k, dflt)
Get(d, k, dflt) == IF k \in DOMAIN d THEN d[k] ELSE dflt

\* "text and text.strip()" of the extractors: a text that is not blank.
HasText(t) == t # None /\ Strip(t) # <<>>

\* The dictionary a list of (key, value) pairs builds, later pairs winning.
RECURSIVE DictOf(_)
DictOf(pairs) ==
    IF pairs = <<>> THEN EmptyDict
    ELSE Update(DictOf(SubSeq(pairs, 1, Len(pairs) - 1)),
                pairs[Len(pairs)][1] :> pairs[Len(pairs)][2])

\* A child element is [tag, text, sub], sub its own children as [tag, text].
\* extract_children_text: the key "child.subchild" is the pair <<child, subchild>>,
\* the key "child" the tuple <<child>>.
RECURSIVE ChildPairs(_)
ChildPairs(children) ==
    IF children = <<>> THEN <<>>
    ELSE LET c == Head(children)
             own == IF c.sub # <<>>
                    THEN LET RECURSIVE SubPairs(_)
                             SubPairs(ss) ==
                                 IF ss = <<>> THEN <<>>
                                 ELSE (IF HasText(Head(ss).text)
                                       THEN <<<< <<c.tag, Head(ss).tag>>,
                                                  Strip(Head(ss).text) >>>>
                                       ELSE <<>>) \o SubPairs(Tail(ss))
                         IN SubPairs(c.sub)
                    ELSE IF HasText(c.text)
                         THEN << << <<c.tag>>, Strip(c.text) >> >>
                         ELSE <<>>
         IN own \o ChildPairs(Tail(children))

extract_children_text(children) == DictOf(ChildPairs(children))

\* extract_rule_details: the RULE's children with a text that is not blank.
RECURSIVE RulePairs(_)
RulePairs(children) ==
    IF children = <<>> THEN <<>>
    ELSE (IF HasText(Head(children).text)
          THEN << <<Head(children).tag, Strip(Head(children).text)>> >>
          ELSE <<>>) \o RulePairs(Tail(children))

extract_rule_details(rule_children) == DictOf(RulePairs(rule_children))

---------------------------------------------------------------------------
\* A ShapeObject of the source document, as the pass reads it:
\*   shape        a SHAPE element is found below it (find('.//SHAPE'))
\*   className    the text of SHAPE/MetaData/ClassName, NoClassName when the
\*                element is missing, NoClassText when it holds no text
\*   rule         where a RULE element sits: "child" (directly below the
\*                ShapeObject), "nested" (deeper only) or "none"
\*   ruleChildren the children [tag, text] of the RULE
\*   rectAt       the path of the RectShape element below SHAPE, or "none"
\*   rect         its Left / Right / Top / Bottom texts (None: field missing)
\*   points       the PolyShape/Point elements, [X, Y] texts
\*   pen, fillColor  findtext('Color') of Pen / FillColor, Absent when the
\*                element is missing
\*   style        findtext('StrokeThickness') of Style, Absent likewise
\*   hasShapeStyle, lineColor, ssFill   ShapeStyle and its two fields

NoClassName == "<no ClassName element>"
NoClassText == "<ClassName without text>"

Falsy(t) == t = None \/ t = <<>>

One == <<"1">>

\* A resolver that lets ShapeStyle override the primary fields.
extract_visuals_style_first(so) ==
    LET stroke1 == IF so.hasShapeStyle THEN decimal_to_hex(so.lineColor)
                   ELSE IF so.pen # Absent THEN decimal_to_hex(so.pen) ELSE None
        fill1 == IF so.hasShapeStyle THEN decimal_to_hex(so.ssFill)
                 ELSE IF so.fillColor # Absent THEN decimal_to_hex(so.fillColor)
                 ELSE None
        thick0 == IF so.style # Absent THEN so.style ELSE None
    IN [stroke |-> IF Falsy(stroke1) THEN Gray ELSE stroke1,
        stroke_thickness |-> IF Falsy(thick0) THEN One ELSE thick0,
        fill |-> IF Falsy(fill1) THEN Gray ELSE fill1]

extract_visuals(so) ==
    LET stroke0 == IF so.pen # Absent THEN decimal_to_hex(so.pen) ELSE None
        fill0 == IF so.fillColor # Absent THEN decimal_to_hex(so.fillColor)
                 ELSE None
        thick0 == IF so.style # Absent THEN so.style ELSE None
        stroke1 == IF so.hasShapeStyle /\ Falsy(stroke0)
                   THEN decimal_to_hex(so.lineColor) ELSE stroke0
        fill1 == IF so.hasShapeStyle /\ Falsy(fill0)
                 THEN decimal_to_hex(so.ssFill) ELSE fill0
    IN [stroke |-> IF Falsy(stroke1) THEN Gray ELSE stroke1,
        stroke_thickness |-> IF Falsy(thick0) THEN One ELSE thick0,
        fill |-> IF Falsy(fill1) THEN Gray ELSE fill1]

\* A rule test that also finds a RULE deeper in the ShapeObject.
has_crule_any_depth(so) == so.rule # "none"

has_crule(so) == so.rule = "child"

---------------------------------------------------------------------------
\* Literal texts of the templates.

Dash == <<"-">>
T_rect == <<"r", "e", "c", "t">>
T_txt == <<"t", "x", "t">>
T_poly == <<"p", "o", "l", "y">>
T_shape_ == <<"s", "h", "a", "p", "e", "_">>
T_default == <<"d", "e", "f", "a", "u", "l", "t">>
T_zero == <<"0">>

\* "{}-<kind>-{}".format(sysname, symbol_key)
ClassLabel(sn, kind, sk) == sn \o Dash \o kind \o Dash \o sk

\* A name template that leaves the counter out.
ElementNameNoCounter(sn, kind, sk, c) == ClassLabel(sn, kind, sk)

\* "{sysname}-<kind>-{symbol_key}-{counter}"
ElementName(sn, kind, sk, c) == ClassLabel(sn, kind, sk) \o Dash \o IntToStr(c)

\* 'shape_{}'.format(idx)
ShapeKey(i) == T_shape_ \o IntToStr(i)

\* " ".join(f"{x},{y}" ...)
RECURSIVE JoinPoints(_)
JoinPoints(pts) ==
    IF pts = <<>> THEN <<>>
    ELSE IF Len(pts) = 1
         THEN IntToStr(pts[1].x) \o <<",">> \o IntToStr(pts[1].y)
         ELSE IntToStr(pts[1].x) \o <<",">> \o IntToStr(pts[1].y) \o <<" ">>
              \o JoinPoints(Tail(pts))

\* The running extent: NoExtent is Python's None, <<v>> the value v.
NoExtent == <<>>

Min2(a, b) == IF a <= b THEN a ELSE b
Max2(a, b) == IF a >= b THEN a ELSE b

\* An extent update that forgets what it held.
ExtendMinForgetful(m, v) == <<v>>

\* "v if m is None else min(m, v)"
ExtendMin(m, v) == IF m = NoExtent THEN <<v>> ELSE <<Min2(m[1], v)>>

\* "v if m is None else max(m, v)"
ExtendMax(m, v) == IF m = NoExtent THEN <<v>> ELSE <<Max2(m[1], v)>>

\* int(text) of a geometry field fails: the field is missing or no integer.
BadInt(t) == t = None \/ ~IntParses(t)

---------------------------------------------------------------------------
\* The elements parse_xml emits (the three templates), attribute by attribute.

RectangleElement(sn, sk, c, width, height, left, top, vis, visibility) ==
    [tag |-> "Rectangle",
     Name |-> ElementName(sn, T_rect, sk, c),
     Width |-> IntToStr(width),
     Height |-> IntToStr(height),
     CanvasLeft |-> IntToStr(left),
     CanvasTop |-> IntToStr(top),
     Stroke |-> vis.stroke,
     StrokeThickness |-> vis.stroke_thickness,
     Fill |-> vis.fill,
     Tag |-> "1",
     Visibility |-> visibility,
     CanvasZIndex |-> "2"]

TextBlockElement(sn, sk, c, left, top, right, bottom, visibility) ==
    [tag |-> "TextBlock",
     Name |-> ElementName(sn, T_txt, sk, c),
     Text |-> "control",
     CanvasLeft |-> IntToStr(left),
     CanvasTop |-> IntToStr(top),
     CanvasRight |-> IntToStr(right),
     CanvasBottom |-> IntToStr(bottom),
     Foreground |-> Gray,
     FontSize |-> "10",
     FontWeight |-> "Normal",
     Tag |-> "1",
     Visibility |-> visibility]

PolygonElement(sn, sk, c, pts, vis, visibility) ==
    [tag |-> "Polygon",
     Name |-> ElementName(sn, T_poly, sk, c),
     Points |-> JoinPoints(pts),
     Stroke |-> vis.stroke,
     StrokeThickness |-> vis.stroke_thickness,
     Fill |-> vis.fill,
     Tag |-> "17",
     Visibility |-> visibility,
     CanvasZIndex |-> "2"]

\* The records parse_xml keeps in shape_dict.
RectangleRecord(sn, sk, width, height, left, top, vis, visibility) ==
    [ClassName |-> ClassLabel(sn, T_rect, sk), Visibility |-> visibility,
     Tag |-> "1", Left |-> left, Top |-> top, Width |-> width,
     Height |-> height, Stroke |-> vis.stroke,
     StrokeThickness |-> vis.stroke_thickness, Fill |-> vis.fill]

TextBoxRecord(sn, sk, left, top, right, bottom, visibility) ==
    [ClassName |-> ClassLabel(sn, T_txt, sk), Visibility |-> visibility,
     Tag |-> "1", Left |-> left, Top |-> top, Right |-> right,
     Bottom |-> bottom, Text |-> "control"]

PolygonRecord(sn, sk, pts, vis, visibility) ==
    [ClassName |-> ClassLabel(sn, T_poly, sk), Visibility |-> visibility,
     Tag |-> "17", Points |-> JoinPoints(pts), Stroke |-> vis.stroke,
     StrokeThickness |-> vis.stroke_thickness, Fill |-> vis.fill]

\* The Point elements read in order until one fails to convert: the points
\* converted so far, and whether the loop ran to its end.
RECURSIVE ReadPoints(_)
ReadPoints(pts) ==
    IF pts = <<>> THEN [ok |-> TRUE, pts |-> <<>>]
    ELSE IF BadInt(Head(pts).X) \/ BadInt(Head(pts).Y)
         THEN [ok |-> FALSE, pts |-> <<>>]
         ELSE LET rest == ReadPoints(Tail(pts))
              IN [ok |-> rest.ok,
                  pts |-> <<[x |-> IntValue(Head(pts).X),
                             y |-> IntValue(Head(pts).Y)]>> \o rest.pts]

RECURSIVE ExtendMinAll(_, _)
ExtendMinAll(m, vs) ==
    IF vs = <<>> THEN m ELSE ExtendMinAll(ExtendMin(m, Head(vs)), Tail(vs))

RECURSIVE ExtendMaxAll(_, _)
ExtendMaxAll(m, vs) ==
    IF vs = <<>> THEN m ELSE ExtendMaxAll(ExtendMax(m, Head(vs)), Tail(vs))

Xs(pts) == [i \in 1 .. Len(pts) |-> pts[i].x]
Ys(pts) == [i \in 1 .. Len(pts) |-> pts[i].y]

\* A dispatch whose last branch takes every remaining class name.
IsPolygonClassCatchAll(c) == c \notin {"CRectangle", "CTextBox", NoClassText}

\* "classname in ['CPolygon', 'CParallelogram']"
IsPolygonClass(c) == c \in {"CPolygon", "CParallelogram"}

---------------------------------------------------------------------------
\* The documents the pass is run on.  A ShapeObject differs from the plain
\* one of its class in one respect at a time: its structure (payload, class,
\* rule), its geometry, or its styling.

T_Foo == <<"F", "o", "o">>
T_42 == <<"4", "2">>
T_7_1_padded == <<" ", "7", "-", "1", " ">>
T_255 == <<"2", "5", "5">>
T_16 == <<"1", "6">>
T_3 == <<"3">>

\* The text children of a ViewObject.
ViewFields ==
    { <<>>,
      << [tag |-> "Info", text |-> None,
          sub |-> << [tag |-> "SysName", text |-> T_42] >>],
         [tag |-> "SysName", text |-> T_Foo, sub |-> <<>>],
         [tag |-> "SymbolKey", text |-> T_7_1_padded, sub |-> <<>>] >> }

KnownClasses == {"CRectangle", "CTextBox", "CPolygon", "CParallelogram"}

Rect(l, r, t, b) == [Left |-> l, Right |-> r, Top |-> t, Bottom |-> b]

PlainRect == Rect(<<"0">>, <<"1">>, <<"0">>, <<"1">>)

RectTexts ==
    { PlainRect,
      Rect(<<"1">>, <<"0">>, <<"1">>, <<"1">>),
      Rect(<<"1">>, <<"3">>, <<"0">>, <<"2">>),
      Rect(<<"-", "2">>, <<"0">>, <<"3">>, <<"1">>) }

Point(x, y) == [X |-> x, Y |-> y]

PlainPoints == << Point(<<"0">>, <<"1">>), Point(<<"1">>, <<"0">>) >>

PointLists ==
    { <<>>,
      PlainPoints,
      << Point(<<"2">>, <<"0">>) >>,
      << Point(<<"1">>, <<"2">>), Point(<<"-", "1">>, <<"0">>),
         Point(<<"0">>, <<"0">>) >>,
      << Point(<<"0">>, None) >> }

RuleChildren ==
    << [tag |-> "Cond", text |-> <<"a">>], [tag |-> "Note", text |-> <<" ">>] >>

\* The plain ShapeObject of class c: the geometry sits where the branch of
\* its class looks for it, no rule, no styling.
Plain(c) ==
    [shape |-> TRUE, className |-> c, rule |-> "none", ruleChildren |-> <<>>,
     rectAt |-> IF c = "CTextBox" THEN "Rectangle/RectShape" ELSE "RectShape",
     rect |-> PlainRect, points |-> PlainPoints,
     pen |-> Absent, fillColor |-> Absent, style |-> Absent,
     hasShapeStyle |-> FALSE, lineColor |-> None, ssFill |-> None]

WithRule(so, r) ==
    [so EXCEPT !.rule = r,
               !.ruleChildren = IF r = "child" THEN RuleChildren ELSE <<>>]

StructureInputs ==
    { WithRule(Plain(c), r) :
        c \in KnownClasses \cup {"CEllipse"}, r \in {"none", "child", "nested"} }
    \cup { Plain(NoClassName), Plain(NoClassText),
           [Plain("CRectangle") EXCEPT !.shape = FALSE],
           [WithRule(Plain("CRectangle"), "child") EXCEPT !.ruleChildren = <<>>] }

GeometryInputs ==
    { [Plain(c) EXCEPT !.rect = g] : c \in {"CRectangle", "CTextBox"}, g \in RectTexts }
    \cup { [Plain(c) EXCEPT !.rectAt = a] :
             c \in {"CRectangle", "CTextBox"},
             a \in {"RectShape", "Rectangle/RectShape", "none"} }
    \cup { [Plain("CRectangle") EXCEPT !.rect.Right = t] : t \in {None, <<"x">>} }
    \cup { [Plain("CPolygon") EXCEPT !.points = ps] : ps \in PointLists }

\* Pen/Color with and without a ShapeStyle/LineColor beside it.
StrokeInputs ==
    { [Plain(c) EXCEPT !.pen = pc, !.hasShapeStyle = ss[1], !.lineColor = ss[2]] :
        c \in {"CRectangle", "CPolygon"}, pc \in {Absent, None, <<>>, T_255},
        ss \in {<<FALSE, None>>, <<TRUE, None>>, <<TRUE, T_16>>} }
    \cup { WithRule([Plain("CTextBox") EXCEPT !.pen = T_255, !.hasShapeStyle = TRUE,
                                               !.lineColor = T_16], r) :
             r \in {"none", "child"} }

FillInputs ==
    { [Plain("CRectangle") EXCEPT !.fillColor = fc, !.hasShapeStyle = ss[1],
                                  !.ssFill = ss[2]] :
        fc \in {Absent, T_255}, ss \in {<<FALSE, None>>, <<TRUE, T_3>>} }

ThicknessInputs ==
    { [Plain("CRectangle") EXCEPT !.style = st] : st \in {None, <<>>, T_3} }

\* The ShapeObjects of the documents of SpecParse: structure and geometry.
ShapeInputs == StructureInputs \cup GeometryInputs

\* The ShapeObjects of the documents of SpecStyle: styling.
StylingInputs == StrokeInputs \cup FillInputs \cup ThicknessInputs

---------------------------------------------------------------------------
\* parse_xml.

ParseIdle ==
    /\ parent_dict = EmptyDict /\ shape_dict = EmptyDict /\ crule_dict = EmptyDict
    /\ counter = 0 /\ canvas_elements = <<>>
    /\ min_x = NoExtent /\ max_x = NoExtent /\ min_y = NoExtent /\ max_y = NoExtent
    /\ symbol_key = T_zero /\ sysname = T_default /\ idx = 0
    /\ canvas_size = <<>> /\ exc = "none"
    /\ nviews = 0 /\ nshapes = 0 /\ rects_seen = {} /\ last = [result |-> "none"]
    /\ view_keys = {} /\ view_rules = {} /\ npass = 0

\* ET.parse and the initialisation of the locals; a malformed file raises.
ParseFile ==
    /\ ppc = "start"
    /\ \E wellformed \in BOOLEAN :
         IF wellformed
         THEN /\ ppc' = "views"
              /\ counter' = 0
              /\ canvas_elements' = <<>>
              /\ min_x' = NoExtent /\ max_x' = NoExtent
              /\ min_y' = NoExtent /\ max_y' = NoExtent
              /\ UNCHANGED exc
         ELSE /\ ppc' = "raised"
              /\ exc' = "ParseError"
              /\ UNCHANGED <<counter, canvas_elements, extentVars>>
    /\ UNCHANGED <<dictVars, symbol_key, sysname, idx, canvas_size, histVars>>
    /\ UNCHANGED notParse

\* The head of the ViewObject loop's body, up to the SHAPEARRAY test.
NextViewObject ==
    /\ ppc = "views"
    /\ nviews < MaxViews
    /\ \E fields \in ViewFields, has_array \in BOOLEAN :
         LET pd == Update(EmptyDict, extract_children_text(fields)) IN
         /\ parent_dict' = pd
         /\ shape_dict' = Clear(shape_dict)
         /\ crule_dict' = Clear(crule_dict)
         /\ symbol_key' = Get(pd, <<"SymbolKey">>, T_zero)
         /\ sysname' = Get(pd, <<"SysName">>, T_default)
         /\ IF has_array
            THEN ppc' = "shapes" /\ idx' = 0
            ELSE ppc' = "views" /\ UNCHANGED idx
    /\ nviews' = nviews + 1
    /\ view_keys' = {} /\ view_rules' = {}
    /\ UNCHANGED <<counter, canvas_elements, extentVars, canvas_size, exc,
                   nshapes, rects_seen, last, npass>>
    /\ UNCHANGED notParse

\* The ShapeObject is passed over: enumerate moves on, nothing else changes
\* but crule_dict, which the caller has already updated.
SkipShape(so, crule1) ==
    /\ crule_dict' = crule1
    /\ idx' = idx + 1
    /\ last' = [result |-> "skipped", so |-> so]
    /\ UNCHANGED <<parent_dict, shape_dict, counter, canvas_elements, extentVars,
                   symbol_key, sysname, canvas_size, ppc, exc, rects_seen,
                   view_keys>>

\* An exception leaves parse_xml: the frame's locals go with it, the module's
\* dictionaries stay as they are.
RaiseInShape(so, crule1, e) ==
    /\ crule_dict' = crule1
    /\ ppc' = "raised"
    /\ exc' = e
    /\ last' = [result |-> "raised", so |-> so]
    /\ UNCHANGED <<parent_dict, shape_dict, counter, canvas_elements, extentVars,
                   symbol_key, sysname, idx, canvas_size, rects_seen,
                   view_keys>>

\* A branch of the dispatch ran to its end: one record, one element.
EmitShape(so, crule1, rec, elem, lo_xs, hi_xs, lo_ys, hi_ys, seen) ==
    /\ crule_dict' = crule1
    /\ counter' = counter + 1
    /\ shape_dict' = Update(shape_dict, ShapeKey(idx) :> rec)
    /\ canvas_elements' = Append(canvas_elements, elem)
    /\ min_x' = ExtendMinAll(min_x, lo_xs)
    /\ max_x' = ExtendMaxAll(max_x, hi_xs)
    /\ min_y' = ExtendMinAll(min_y, lo_ys)
    /\ max_y' = ExtendMaxAll(max_y, hi_ys)
    /\ idx' = idx + 1
    /\ rects_seen' = rects_seen \cup seen
    /\ view_keys' = view_keys \cup {idx}
    /\ last' = [result |-> "emitted", so |-> so]
    /\ UNCHANGED <<parent_dict, symbol_key, sysname, canvas_size, ppc, exc>>

\* One pass of the ShapeObject loop's body.
ProcessShapeObject(so) ==
    IF ~so.shape THEN SkipShape(so, crule_dict)
    ELSE IF so.className = NoClassName
    THEN RaiseInShape(so, crule_dict, "AttributeError")
    ELSE
    LET classname == so.className
        rule_present == has_crule(so)
        visibility == IF rule_present THEN "Collapsed" ELSE "Visible"
        vis == extract_visuals(so)
        crule1 == IF rule_present
                  THEN Update(crule_dict, extract_rule_details(so.ruleChildren))
                  ELSE crule_dict
        r == so.rect
        bad_rect == BadInt(r.Left) \/ BadInt(r.Right) \/ BadInt(r.Top)
                    \/ BadInt(r.Bottom)
        left == IntValue(r.Left)
        right == IntValue(r.Right)
        top == IntValue(r.Top)
        bottom == IntValue(r.Bottom)
    IN
    IF classname = "CRectangle" THEN
        IF so.rectAt # "RectShape"
        THEN RaiseInShape(so, crule1, "AttributeError")
        ELSE IF bad_rect
        THEN RaiseInShape(so, crule1, "ValueError or TypeError")
        ELSE LET width == right - left
                 height == bottom - top
             IN EmitShape(so, crule1,
                    RectangleRecord(sysname, symbol_key, width, height, left, top,
                                    vis, visibility),
                    RectangleElement(sysname, symbol_key, counter + 1, width,
                                     height, left, top, vis, visibility),
                    <<left>>, <<right>>, <<top>>, <<bottom>>,
                    {[Left |-> left, Right |-> right, Top |-> top,
                      Bottom |-> bottom, view |-> nviews]})
    ELSE IF classname = "CTextBox" THEN
        IF so.rectAt # "Rectangle/RectShape"
        THEN RaiseInShape(so, crule1, "AttributeError")
        ELSE IF bad_rect
        THEN RaiseInShape(so, crule1, "ValueError or TypeError")
        ELSE EmitShape(so, crule1,
                 TextBoxRecord(sysname, symbol_key, left, top, right, bottom,
                               visibility),
                 TextBlockElement(sysname, symbol_key, counter + 1, left, top,
                                  right, bottom, visibility),
                 <<left>>, <<right>>, <<top>>, <<bottom>>, {})
    ELSE IF IsPolygonClass(classname) THEN
        LET read == ReadPoints(so.points) IN
        IF ~read.ok
        THEN RaiseInShape(so, crule1, "ValueError or TypeError")
        ELSE EmitShape(so, crule1,
                 PolygonRecord(sysname, symbol_key, read.pts, vis, visibility),
                 PolygonElement(sysname, symbol_key, counter + 1, read.pts, vis,
                                visibility),
                 Xs(read.pts), Xs(read.pts), Ys(read.pts), Ys(read.pts), {})
    ELSE SkipShape(so, crule1)

\* The loop's body on the next ShapeObject of the document, one of inputs.
NextShapeObject(inputs) ==
    /\ ppc = "shapes"
    /\ nshapes < MaxShapes
    /\ \E so \in inputs :
         /\ ProcessShapeObject(so)
         /\ view_rules' = IF so.shape /\ so.className # NoClassName
                              /\ so.rule = "child"
                           THEN view_rules \cup {so.ruleChildren}
                           ELSE view_rules
    /\ nshapes' = nshapes + 1
    /\ UNCHANGED <<nviews, npass>>
    /\ UNCHANGED notParse

ShapeObjectStep == NextShapeObject(ShapeInputs)

StyledShapeObjectStep == NextShapeObject(StylingInputs)

\* The ShapeObject loop is over: the canvas size, then the next ViewObject.
EndShapeArray ==
    /\ ppc = "shapes"
    /\ canvas_size' =
         IF min_x # NoExtent /\ max_x # NoExtent /\ min_y # NoExtent
            /\ max_y # NoExtent
         THEN <<max_x[1] - min_x[1], max_y[1] - min_y[1]>>
         ELSE <<800, 600>>
    /\ ppc' = "views"
    /\ UNCHANGED <<dictVars, extentVars, counter, canvas_elements, symbol_key,
                   sysname, idx, exc, histVars>>
    /\ UNCHANGED notParse

\* The ViewObject loop is over: "return canvas_elements".
ReturnElements ==
    /\ ppc = "views"
    /\ ppc' = "returned"
    /\ UNCHANGED <<dictVars, extentVars, counter, canvas_elements, symbol_key,
                   sysname, idx, canvas_size, exc, histVars>>
    /\ UNCHANGED notParse

NextParse ==
    \/ ParseFile
    \/ NextViewObject
    \/ ShapeObjectStep
    \/ EndShapeArray
    \/ ReturnElements

\* The ShapeObjects of the documents of SpecPasses: a branch that runs
\* through, with and without a RULE, a class no branch takes, no SHAPE.
ScopeInputs ==
    { Plain("CRectangle"),
      WithRule(Plain("CPolygon"), "child"),
      WithRule(Plain("CEllipse"), "child"),
      [Plain("CRectangle") EXCEPT !.shape = FALSE] }

ScopedShapeObjectStep == NextShapeObject(ScopeInputs)

\* main_program's loop calls parse_xml on the next file: a new frame, the
\* module's dictionaries as the pass before left them.
ParseNextFile ==
    /\ ppc = "returned"
    /\ npass < MaxPasses - 1
    /\ ppc' = "start"
    /\ npass' = npass + 1
    /\ counter' = 0 /\ canvas_elements' = <<>>
    /\ min_x' = NoExtent /\ max_x' = NoExtent
    /\ min_y' = NoExtent /\ max_y' = NoExtent
    /\ symbol_key' = T_zero /\ sysname' = T_default /\ idx' = 0
    /\ canvas_size' = <<>>
    /\ nviews' = 0 /\ nshapes' = 0 /\ rects_seen' = {}
    /\ last' = [result |-> "none"]
    /\ view_keys' = {} /\ view_rules' = {}
    /\ UNCHANGED <<dictVars, exc>>
    /\ UNCHANGED notParse

NextPasses ==
    \/ ParseFile
    \/ NextViewObject
    \/ ScopedShapeObjectStep
    \/ EndShapeArray
    \/ ReturnElements
    \/ ParseNextFile

NextStyle ==
    \/ ParseFile
    \/ NextViewObject
    \/ StyledShapeObjectStep
    \/ EndShapeArray
    \/ ReturnElements

ColorAlphabet == {"0", "1", "9", "-", "+", "_", " ", "x"}
\* Colours of 24 bits and more: 0xFFFFFF, 0x1000000 and -0x100000.
WideColors ==
    { <<"1", "6", "7", "7", "7", "2", "1", "5">>,
      <<"1", "6", "7", "7", "7", "2", "1", "6">>,
      <<"-", "1", "0", "4", "8", "5", "7", "6">> }

ColorInputs == {None} \cup Texts(ColorAlphabet, MaxLen) \cup WideColors

HexIdle == /\ color_val = None /\ hex_out = None /\ hpc = "idle"

DecimalToHexCall ==
    /\ hpc = "call"
    /\ hex_out' = decimal_to_hex(color_val)
    /\ hpc' = "done"
    /\ UNCHANGED <<color_val, notHex>>

---------------------------------------------------------------------------
\* validate_conversion.  A file is [ok, elems]: whether ET.parse accepts it
\* and, if so, its elements in document order (root.iter()), each a tag and
\* its attributes as (name, value) pairs.

\* str.lower() on the tags of the model.
Lower(t) ==
    CASE t = "Root" -> "root"
      [] t = "ROOT" -> "root"
      [] t = "A" -> "a"
      [] t = "B" -> "b"
      [] t = "C" -> "c"
      [] OTHER -> t

\* A root test that compares the tag as it is written.
IsRootTagCaseSensitive(t) == t = "root"

\* "elem.tag.lower() == 'root'"
IsRootTag(t) == Lower(t) = "root"

RECURSIVE MissingValues(_, _, _)
MissingValues(tag, attrib, values) ==
    IF attrib = <<>> THEN <<>>
    ELSE (IF Head(attrib)[2] \notin values
          THEN << [kind |-> "Missing value", tag |-> tag,
                   attr |-> Head(attrib)[1], value |-> Head(attrib)[2]] >>
          ELSE <<>>) \o MissingValues(tag, Tail(attrib), values)

\* A scan that looks at the attribute values and not at the tag.
ElementMismatchesValuesOnly(elem, tags, values) ==
    IF IsRootTag(elem.tag) THEN <<>>
    ELSE MissingValues(elem.tag, elem.attrib, values)

\* What one pass of the scan loop's body appends to mismatches.
ElementMismatches(elem, tags, values) ==
    IF IsRootTag(elem.tag) THEN <<>>
    ELSE (IF elem.tag \notin tags
          THEN << [kind |-> "Missing tag", tag |-> elem.tag] >>
          ELSE <<>>) \o MissingValues(elem.tag, elem.attrib, values)

TagsOf(elems) == {elems[k].tag : k \in 1 .. Len(elems)}

ValuesOf(elems) ==
    UNION {{elems[k].attrib[j][2] : j \in 1 .. Len(elems[k].attrib)} :
             k \in 1 .. Len(elems)}

SourceElems ==
    [tag : {"root", "Root", "A", "C"},
     attrib : {<<>>, << <<"a", "1">> >>, << <<"a", "1">>, <<"b", "3">> >>}]

OutputElems ==
    [tag : {"A", "B"}, attrib : {<<>>, << <<"x", "1">> >>}]

Malformed == [ok |-> FALSE, elems |-> <<>>]

SourceDocs ==
    {Malformed} \cup
    {[ok |-> TRUE, elems |-> es] :
       es \in UNION {[1 .. n -> SourceElems] : n \in 1 .. MaxElems}}

OutputDocs ==
    {Malformed} \cup
    {[ok |-> TRUE, elems |-> es] :
       es \in UNION {[1 .. n -> OutputElems] : n \in 1 .. 2}}

ValIdle ==
    /\ xml_doc = Malformed /\ xaml_doc = Malformed
    /\ xaml_tags = {} /\ xaml_attributes = {} /\ mismatches = <<>>
    /\ vi = 0 /\ vpc = "idle" /\ verdict = "none"

\* The two ET.parse calls; a failure of either is caught at the end of the
\* function and reported.
ValidateParse ==
    /\ vpc = "parse"
    /\ IF xml_doc.ok /\ xaml_doc.ok
       THEN vpc' = "gather" /\ UNCHANGED verdict
       ELSE vpc' = "done" /\ verdict' = "error"
    /\ UNCHANGED <<xml_doc, xaml_doc, xaml_tags, xaml_attributes, mismatches, vi>>
    /\ UNCHANGED notVal

\* The loop over the output's elements, and "mismatches = []".
GatherXaml ==
    /\ vpc = "gather"
    /\ xaml_tags' = TagsOf(xaml_doc.elems)
    /\ xaml_attributes' = ValuesOf(xaml_doc.elems)
    /\ mismatches' = <<>>
    /\ vi' = 0
    /\ vpc' = "scan"
    /\ UNCHANGED <<xml_doc, xaml_doc, verdict>>
    /\ UNCHANGED notVal

\* One pass of the loop over the source's elements.
ScanElement ==
    /\ vpc = "scan"
    /\ vi < Len(xml_doc.elems)
    /\ mismatches' = mismatches \o
         ElementMismatches(xml_doc.elems[vi + 1], xaml_tags, xaml_attributes)
    /\ vi' = vi + 1
    /\ UNCHANGED <<xml_doc, xaml_doc, xaml_tags, xaml_attributes, vpc, verdict>>
    /\ UNCHANGED notVal

\* The loop is over: the final result.
ReportValidation ==
    /\ vpc = "scan"
    /\ vi = Len(xml_doc.elems)
    /\ verdict' = IF mismatches # <<>> THEN "failed" ELSE "successful"
    /\ vpc' = "done"
    /\ UNCHANGED <<xml_doc, xaml_doc, xaml_tags, xaml_attributes, mismatches, vi>>
    /\ UNCHANGED notVal

NextValidate ==
    \/ ValidateParse
    \/ GatherXaml
    \/ ScanElement
    \/ ReportValidation

---------------------------------------------------------------------------
\* The batches: main_program's loop over the input files, and
\* validate_conversion_all, which main_program calls after it and which can
\* be called on its own.  An input file is [ok, root, shapes, sysname]:
\* whether it is well-formed, the tag of its root, the class names of its
\* ShapeObjects (NoClassName for a SHAPE without one), each ShapeObject in a
\* ViewObject of its own, and the SysName of its ViewObjects.  An output file
\* is [exists, ok, elems].

\* What parse_xml does with a file: the exception it raises, or "none" and
\* the elements it returns, one per ShapeObject of a class it knows.
ParseXmlRaises(f) ==
    IF ~f.ok THEN "ParseError"
    ELSE IF \E k \in 1 .. Len(f.shapes) : f.shapes[k] = NoClassName
    THEN "AttributeError"
    ELSE "none"

ElementTagOf(c) ==
    CASE c = "CRectangle" -> "Rectangle"
      [] c = "CTextBox" -> "TextBlock"
      [] OTHER -> "Polygon"

RECURSIVE ParseXmlReturns(_, _)
ParseXmlReturns(shapes, sn) ==
    IF shapes = <<>> THEN <<>>
    ELSE (IF Head(shapes) \in {"CRectangle", "CTextBox"} \/ IsPolygonClass(Head(shapes))
          THEN << [tag |-> ElementTagOf(Head(shapes)),
                   attrib |-> << <<"Name", sn>>, <<"Visibility", "Visible">> >>] >>
          ELSE <<>>) \o ParseXmlReturns(Tail(shapes), sn)

\* The elements of an input file in document order.
RECURSIVE ShapeElems(_)
ShapeElems(shapes) ==
    IF shapes = <<>> THEN <<>>
    ELSE << [tag |-> "ViewObject", attrib |-> <<>>],
            [tag |-> "SHAPEARRAY", attrib |-> <<>>],
            [tag |-> "ShapeObject", attrib |-> <<>>],
            [tag |-> "SHAPE", attrib |-> <<>>] >> \o ShapeElems(Tail(shapes))

SourceDocOf(f) ==
    IF f.ok
    THEN [ok |-> TRUE,
          elems |-> <<[tag |-> f.root, attrib |-> <<>>]>> \o ShapeElems(f.shapes)]
    ELSE Malformed

NoFile == [exists |-> FALSE, ok |-> FALSE, elems |-> <<>>]

\* A SysName whose text holds a markup character: the template copies it
\* into the Name attribute as it is.
MarkupNames == {"a&b"}

\* The element's text is well-formed: no attribute value holds markup.
ElementParses(e) ==
    \A j \in 1 .. Len(e.attrib) : e.attrib[j][2] \notin MarkupNames

\* The file "\n".join(canvas_elements) makes: one element is a document if
\* its text is well-formed, two or more have no single root and do not parse.
WrittenFile(elements) ==
    LET parses == Len(elements) = 1 /\ ElementParses(elements[1]) IN
    [exists |-> TRUE, ok |-> parses,
     elems |-> IF parses THEN elements ELSE <<>>]

RECURSIVE AllMismatches(_, _, _)
AllMismatches(elems, tags, values) ==
    IF elems = <<>> THEN <<>>
    ELSE ElementMismatches(Head(elems), tags, values)
         \o AllMismatches(Tail(elems), tags, values)

\* What validate_conversion reports for a pair of files; no exception of the
\* parse leaves it.
ValidationVerdict(src, out) ==
    IF ~src.ok \/ ~out.ok THEN "error"
    ELSE IF AllMismatches(src.elems, TagsOf(out.elems), ValuesOf(out.elems)) # <<>>
    THEN "failed"
    ELSE "successful"

InputFiles ==
    { [ok |-> FALSE, root |-> "root", shapes |-> <<>>, sysname |-> "S"],
      [ok |-> TRUE, root |-> "root", shapes |-> <<>>, sysname |-> "S"],
      [ok |-> TRUE, root |-> "Diagram", shapes |-> <<"CRectangle">>, sysname |-> "S"],
      [ok |-> TRUE, root |-> "root", shapes |-> <<"CTextBox", "CEllipse", "CPolygon">>, sysname |-> "S"],
      [ok |-> TRUE, root |-> "root", shapes |-> <<"CEllipse">>, sysname |-> "S"],
      [ok |-> TRUE, root |-> "root", shapes |-> <<"CRectangle", NoClassName>>, sysname |-> "S"],
      [ok |-> TRUE, root |-> "root", shapes |-> <<NoClassName>>, sysname |-> "S"],
      [ok |-> TRUE, root |-> "root", shapes |-> <<"CPolygon">>, sysname |-> "a&b"] }

\* What the output folder holds for a file before the run.
StaleOutputs ==
    { NoFile,
      [exists |-> TRUE, ok |-> FALSE, elems |-> <<>>],
      [exists |-> TRUE, ok |-> TRUE,
       elems |-> <<[tag |-> "Rectangle", attrib |-> <<>>]>>] }

BatchIdle ==
    /\ entry = "none" /\ files = <<>> /\ outputs = <<>> /\ fi = 0
    /\ bpc = "idle" /\ converted = {} /\ verdicts = <<>> /\ blog = {}
    /\ bexc = "none"

\* main_program, lines 82-87: the files are listed; none means a warning and
\* a return.
ListFiles ==
    /\ bpc = "main"
    /\ IF files = <<>>
       THEN /\ blog' = blog \cup {[level |-> "warning", what |-> "No files to process", file |-> 0]}
            /\ bpc' = "finished"
       ELSE /\ bpc' = "convert"
            /\ UNCHANGED blog
    /\ fi' = 0
    /\ UNCHANGED <<entry, files, outputs, converted, verdicts, bexc>>
    /\ UNCHANGED notBatch

\* One pass of main_program's loop: parse_xml, then the file is written or
\* the warning logged.  An exception of parse_xml is caught nowhere.
ConvertFile ==
    /\ bpc = "convert"
    /\ fi < Len(files)
    /\ LET k == fi + 1
           f == files[k]
           elements == ParseXmlReturns(f.shapes, f.sysname)
       IN IF ParseXmlRaises(f) # "none"
          THEN /\ bpc' = "crashed"
               /\ bexc' = ParseXmlRaises(f)
               /\ UNCHANGED <<outputs, converted, blog, fi>>
          ELSE /\ converted' = converted \cup {k}
               /\ fi' = k
               /\ IF elements # <<>>
                  THEN /\ outputs' = [outputs EXCEPT ![k] = WrittenFile(elements)]
                       /\ blog' = blog \cup {[level |-> "info", what |-> "File saved", file |-> k]}
                  ELSE /\ blog' = blog \cup {[level |-> "warning", what |-> "No shapes found", file |-> k]}
                       /\ UNCHANGED outputs
               /\ UNCHANGED <<bpc, bexc>>
    /\ UNCHANGED <<entry, files, verdicts>>
    /\ UNCHANGED notBatch

\* main_program's loop is over: validate_conversion_all is called and lists
\* the files again.
CallValidateAll ==
    /\ \/ bpc = "convert" /\ fi = Len(files)
       \/ bpc = "validate_all"
    /\ bpc' = IF files = <<>> THEN "finished" ELSE "validate"
    /\ fi' = 0
    /\ UNCHANGED <<entry, files, outputs, converted, verdicts, blog, bexc>>
    /\ UNCHANGED notBatch

\* One pass of validate_conversion_all's loop.
ValidateFile ==
    /\ bpc = "validate"
    /\ fi < Len(files)
    /\ LET k == fi + 1 IN
       /\ IF ~outputs[k].exists
          THEN /\ verdicts' = [verdicts EXCEPT ![k] = "no output"]
               /\ UNCHANGED blog
          ELSE LET v == ValidationVerdict(SourceDocOf(files[k]), outputs[k]) IN
               /\ verdicts' = [verdicts EXCEPT ![k] = v]
               /\ blog' = blog \cup
                    {[level |-> CASE v = "error" -> "error"
                                  [] v = "failed" -> "warning"
                                  [] OTHER -> "info",
                      what |-> "Validation", file |-> k]}
       /\ fi' = k
    /\ UNCHANGED <<entry, files, outputs, bpc, converted, bexc>>
    /\ UNCHANGED notBatch

\* validate_conversion_all's loop is over; main_program prints the time.
FinishBatch ==
    /\ bpc = "validate"
    /\ fi = Len(files)
    /\ bpc' = "finished"
    /\ UNCHANGED <<entry, files, outputs, fi, converted, verdicts, blog, bexc>>
    /\ UNCHANGED notBatch

NextBatch ==
    \/ ListFiles
    \/ ConvertFile
    \/ CallValidateAll
    \/ ValidateFile
    \/ FinishBatch

---------------------------------------------------------------------------
\* choose_match.  A candidate is [id, val]: the identifier found and the
\* value of the attribute asked for (None when the element has none).

\* One character: a superscript two, a digit to str.isdigit() that int()
\* does not accept.
SuperscriptTwo == "^2"

\* str.isdigit(): not empty, and every character a digit, the decimal digits
\* and the other digit characters alike.
IsDigit(s) ==
    /\ s # <<>>
    /\ \A i \in 1 .. Len(s) : s[i] \in Digits \cup {SuperscriptTwo}

ChoiceAlphabet == {"0", "1", "2", "4", " ", "x", SuperscriptTwo}

ChoiceInputs == Texts(ChoiceAlphabet, MaxChoiceLen)

Candidates == [id : {"SKN1", "SKN2"}, val : {None, <<"5">>}]

NoChoice == <<"None">>
NothingChosen == [val |-> None, id |-> "<none>"]

ChooseIdle ==
    /\ matches = <<>> /\ cpc = "idle" /\ prompts = 0 /\ choice = NoChoice
    /\ chosen = NothingChosen /\ cexc = "none"

\* choose_match up to its loop: no candidate, one candidate, or the listing.
ChooseCall ==
    /\ cpc = "call"
    /\ IF matches = <<>>
       THEN /\ cpc' = "returned"
            /\ chosen' = [val |-> None, id |-> "None"]
       ELSE IF Len(matches) = 1
       THEN /\ cpc' = "returned"
            /\ chosen' = [val |-> matches[1].val, id |-> matches[1].id]
       ELSE /\ cpc' = "prompt"
            /\ UNCHANGED chosen
    /\ UNCHANGED <<matches, prompts, choice, cexc>>
    /\ UNCHANGED notChoose

\* One pass of the loop: input(), strip, the digit test, int(), the range
\* test.  int() raises on a digit character that is no decimal digit.
ChoosePrompt ==
    /\ cpc = "prompt"
    /\ prompts < MaxPrompts
    /\ \E entered \in ChoiceInputs :
         LET c == Strip(entered) IN
         /\ choice' = entered
         /\ IF IsDigit(c)
            THEN IF ~IntParses(c)
                 THEN /\ cpc' = "raised"
                      /\ cexc' = "ValueError"
                      /\ UNCHANGED chosen
                 ELSE LET i == IntValue(c) - 1 IN
                      IF 0 <= i /\ i < Len(matches)
                      THEN /\ cpc' = "returned"
                           /\ chosen' = [val |-> matches[i + 1].val,
                                         id |-> matches[i + 1].id]
                           /\ UNCHANGED cexc
                      ELSE UNCHANGED <<cpc, chosen, cexc>>
            ELSE UNCHANGED <<cpc, chosen, cexc>>
    /\ prompts' = prompts + 1
    /\ UNCHANGED matches
    /\ UNCHANGED notChoose

NextChoose ==
    \/ ChooseCall
    \/ ChoosePrompt

---------------------------------------------------------------------------
\* Specifications.

\* decimal_to_hex is called on a colour text.
InitHex ==
    /\ color_val \in ColorInputs
    /\ hex_out = None
    /\ hpc = "call"
    /\ ParseIdle /\ ppc = "idle"
    /\ ValIdle
    /\ BatchIdle
    /\ ChooseIdle

NextHex == DecimalToHexCall

SpecHex == InitHex /\ [][NextHex]_vars

\* The module is loaded and parse_xml is called on a file.
InitParse ==
    /\ ParseIdle /\ ppc = "start"
    /\ HexIdle
    /\ ValIdle
    /\ BatchIdle
    /\ ChooseIdle

\* parse_xml on documents that vary in structure and geometry.
SpecParse == InitParse /\ [][NextParse]_vars

\* parse_xml on documents that vary in styling.
SpecStyle == InitParse /\ [][NextStyle]_vars

\* parse_xml on one file after the other, as main_program's loop calls it.
SpecPasses == InitParse /\ [][NextPasses]_vars

\* validate_conversion is called on a source file and an output file.
InitValidate ==
    /\ xml_doc \in SourceDocs
    /\ xaml_doc \in OutputDocs
    /\ xaml_tags = {} /\ xaml_attributes = {} /\ mismatches = <<>>
    /\ vi = 0 /\ vpc = "parse" /\ verdict = "none"
    /\ HexIdle
    /\ ParseIdle /\ ppc = "idle"
    /\ BatchIdle
    /\ ChooseIdle

SpecValidate == InitValidate /\ [][NextValidate]_vars

\* main_program is started, or validate_conversion_all is called on its own,
\* on an input folder and an output folder that may hold earlier outputs.
InitBatch ==
    /\ entry \in {"main_program", "validate_conversion_all"}
    /\ files \in UNION {[1 .. n -> InputFiles] : n \in 0 .. MaxFiles}
    /\ outputs \in [1 .. Len(files) -> StaleOutputs]
    /\ verdicts = [k \in 1 .. Len(files) |-> "none"]
    /\ bpc = IF entry = "main_program" THEN "main" ELSE "validate_all"
    /\ fi = 0 /\ converted = {} /\ blog = {} /\ bexc = "none"
    /\ HexIdle
    /\ ParseIdle /\ ppc = "idle"
    /\ ValIdle
    /\ ChooseIdle

SpecBatch == InitBatch /\ [][NextBatch]_vars

\* choose_match is called on a list of candidates.
InitChoose ==
    /\ matches \in UNION {[1 .. n -> Candidates] : n \in 0 .. MaxMatches}
    /\ cpc = "call" /\ prompts = 0 /\ choice = NoChoice
    /\ chosen = NothingChosen /\ cexc = "none"
    /\ HexIdle
    /\ ParseIdle /\ ppc = "idle"
    /\ ValIdle
    /\ BatchIdle

SpecChoose == InitChoose /\ [][NextChoose]_vars

---------------------------------------------------------------------------
\* Properties of parse_xml (SpecParse).

LastElement == canvas_elements[Len(canvas_elements)]

EndsWith(s, suffix) ==
    /\ Len(suffix) <= Len(s)
    /\ SubSeq(s, Len(s) - Len(suffix) + 1, Len(s)) = suffix

\* C1: every element parse_xml emits (Rectangle, TextBlock or Polygon) has
\* Visibility "Collapsed" exactly when its ShapeObject has a RULE element as a
\* direct child, and "Visible" otherwise.
C1_VisibilityIffRuleChild ==
    last.result = "emitted" =>
        /\ LastElement.tag \in {"Rectangle", "TextBlock", "Polygon"}
        /\ LastElement.Visibility =
             IF last.so.rule = "child" THEN "Collapsed" ELSE "Visible"

C1_Witness ==
    /\ last.result = "emitted"
    /\ last.so.rule = "child"
    /\ LastElement.tag = "TextBlock"
    /\ LastElement.Visibility = "Collapsed"

\* C2: a CRectangle's element has Width = Right-Left and Height = Bottom-Top,
\* and the running extent encloses every rectangle processed so far, those of
\* earlier ViewObjects included: min_x <= Left, max_x >= Right, min_y <= Top,
\* max_y >= Bottom.
C2_RectangleSizeAndExtent ==
    /\ (last.result = "emitted" /\ last.so.className = "CRectangle") =>
           LET r == last.so.rect IN
           /\ LastElement.tag = "Rectangle"
           /\ LastElement.Width = IntToStr(IntValue(r.Right) - IntValue(r.Left))
           /\ LastElement.Height = IntToStr(IntValue(r.Bottom) - IntValue(r.Top))
    /\ \A q \in rects_seen :
           /\ min_x # NoExtent /\ min_x[1] <= q.Left
           /\ max_x # NoExtent /\ max_x[1] >= q.Right
           /\ min_y # NoExtent /\ min_y[1] <= q.Top
           /\ max_y # NoExtent /\ max_y[1] >= q.Bottom

C2_Witness ==
    /\ last.result = "emitted"
    /\ last.so.className = "CRectangle"
    /\ LastElement.Width = <<"2">>
    /\ LastElement.Height = <<"-", "2">>
    /\ nviews = 2
    /\ \E q \in rects_seen :
           /\ q.view = 1
           /\ min_x[1] < q.Left
           /\ max_y[1] = q.Bottom
           /\ max_y[1] > IntValue(last.so.rect.Bottom)

\* C3: the k-th element of the list carries counter k in its name, over the
\* whole document and not per ViewObject, and no two elements share a name.
C3_CounterNamesElements ==
    /\ \A k \in 1 .. Len(canvas_elements) :
           EndsWith(canvas_elements[k].Name, Dash \o IntToStr(k))
    /\ \A j, k \in 1 .. Len(canvas_elements) :
           j # k => canvas_elements[j].Name # canvas_elements[k].Name
    /\ ppc \in {"views", "shapes", "returned"} => counter = Len(canvas_elements)

C3_Witness ==
    /\ ppc = "returned"
    /\ nviews = 2
    /\ Len(canvas_elements) = 2
    /\ idx = 1
    /\ canvas_elements[1].tag = canvas_elements[2].tag
    /\ ClassLabel(sysname, T_rect, symbol_key) \o Dash \o <<"1">>
         = canvas_elements[1].Name
    /\ ClassLabel(sysname, T_rect, symbol_key) \o Dash \o <<"2">>
         = canvas_elements[2].Name

\* C4: when a shape has both a Pen/Color and a ShapeStyle/LineColor, the stroke
\* extract_visuals returns, and the Stroke of the element emitted, is
\* decimal_to_hex of the Pen/Color value and not that of the LineColor.
C4_PenColorBeforeShapeStyle ==
    (/\ last.result = "emitted"
     /\ last.so.pen \notin {Absent, None}
     /\ last.so.hasShapeStyle
     /\ last.so.lineColor # None) =>
        /\ extract_visuals(last.so).stroke = decimal_to_hex(last.so.pen)
        /\ LastElement.tag \in {"Rectangle", "Polygon"} =>
             /\ LastElement.Stroke = decimal_to_hex(last.so.pen)
             /\ decimal_to_hex(last.so.lineColor) # decimal_to_hex(last.so.pen)
                  => LastElement.Stroke # decimal_to_hex(last.so.lineColor)

C4_Witness ==
    /\ last.result = "emitted"
    /\ last.so.pen = T_255
    /\ last.so.hasShapeStyle
    /\ last.so.lineColor = T_16
    /\ LastElement.tag = "Polygon"
    /\ LastElement.Stroke = <<"#", "0", "0", "0", "0", "F", "F">>

\* C7: a ShapeObject whose SHAPE has no MetaData/ClassName is skipped: nothing
\* is emitted, no error is raised, and the pass goes on to the next ShapeObject.
C7_MissingClassNameIsSkipped ==
    (/\ last.result # "none"
     /\ last.so.shape
     /\ last.so.className = NoClassName) =>
        /\ last.result = "skipped"
        /\ ppc # "raised"

\* C8: a shape whose ClassName is none of CRectangle, CTextBox, CPolygon,
\* CParallelogram leaves the element list, shape_dict, the counter and the
\* extent as they were, and the loop goes on to the next ShapeObject.
C8_UnknownClassChangesNothing ==
    [][(/\ nshapes' = nshapes + 1
        /\ last'.so.shape
        /\ last'.so.className \notin KnownClasses \cup {NoClassName}) =>
           /\ canvas_elements' = canvas_elements
           /\ shape_dict' = shape_dict
           /\ counter' = counter
           /\ <<min_x, max_x, min_y, max_y>>' = <<min_x, max_x, min_y, max_y>>
           /\ ppc' = "shapes"
           /\ idx' = idx + 1]_vars

C8_Witness ==
    /\ last.result = "skipped"
    /\ last.so.className = "CEllipse"
    /\ last.so.rule = "child"
    /\ ppc = "shapes"
    /\ idx = 2
    /\ counter = 1
    /\ Len(canvas_elements) = 1
    /\ DOMAIN shape_dict = {ShapeKey(0)}
    /\ min_x # NoExtent

---------------------------------------------------------------------------
\* Properties of the dictionaries over the passes (SpecPasses).

\* The keys of the ShapeObjects of the current ViewObject a branch ran through.
ExpectedShapeKeys == {ShapeKey(i) : i \in view_keys}

\* The keys of the RULE children read in the current ViewObject.
ExpectedRuleKeys == UNION {DOMAIN extract_rule_details(rc) : rc \in view_rules}

\* shape_dict and crule_dict hold what the current ViewObject gave, one
\* record per ShapeObject with a recognized shape, and nothing else.
HoldCurrentViewObjectOnly ==
    /\ DOMAIN shape_dict = ExpectedShapeKeys
    /\ \A k \in DOMAIN shape_dict :
          shape_dict[k].ClassName \in
              {ClassLabel(sysname, kind, symbol_key) : kind \in {T_rect, T_txt, T_poly}}
    /\ DOMAIN crule_dict = ExpectedRuleKeys

---------------------------------------------------------------------------
\* Properties of decimal_to_hex (SpecHex).

\* C5: decimal_to_hex returns "#808080" for every input that is absent, empty,
\* not parseable as an integer, or a negative integer.
C5_FallbackOnBadInput ==
    (/\ hpc = "done"
     /\ \/ color_val = None
        \/ color_val = <<>>
        \/ ~IntParses(color_val)
        \/ IntValue(color_val) < 0) => hex_out = Gray

\* The value of a hex digit.
HexVal(c) == (CHOOSE i \in 1 .. 16 : HexChars[i] = c) - 1

RECURSIVE HexDigitsValue(_)
HexDigitsValue(s) ==
    IF s = <<>> THEN 0
    ELSE 16 * HexDigitsValue(SubSeq(s, 1, Len(s) - 1)) + HexVal(s[Len(s)])

\* The number an output "#..." denotes, read in base 16 with its sign.
HexValue(out) ==
    LET t == Tail(out) IN
    IF t[1] = "-" THEN 0 - HexDigitsValue(Tail(t)) ELSE HexDigitsValue(t)

\* The output interpreted as decimal: its value written as a decimal colour.
OutputAsDecimal(out) == IntToStr(HexValue(out))

\* C12: for every colour input, decimal_to_hex applied again to the value of
\* its own output, written as a decimal colour, gives the same output as the
\* first application.
C12_ToHexIdempotentOnItsOutput ==
    hpc = "done" => decimal_to_hex(OutputAsDecimal(hex_out)) = hex_out

C12_Witness ==
    /\ hpc = "done"
    /\ color_val = <<"+", "1", "9">>
    /\ hex_out = <<"#", "0", "0", "0", "0", "1", "3">>
    /\ OutputAsDecimal(hex_out) = <<"1", "9">>
    /\ decimal_to_hex(OutputAsDecimal(hex_out)) = hex_out

---------------------------------------------------------------------------
\* Properties of validate_conversion (SpecValidate).

Scanned == vpc = "done" /\ verdict # "error"

SourceElem(k) == xml_doc.elems[k]

HasAbsentValue(e) ==
    \E j \in 1 .. Len(e.attrib) : e.attrib[j][2] \notin ValuesOf(xaml_doc.elems)

Covered(e) == e.tag \in TagsOf(xaml_doc.elems) /\ ~HasAbsentValue(e)

\* C6 as stated: zero mismatches exactly when every source element whose tag
\* is not "root" (in any case) has its tag and all its attribute values in the
\* output; and a source attribute value that is absent from the output, on
\* whatever element it sits, yields at least one mismatch.
C6_AnyAbsentValueIsAMismatch ==
    Scanned =>
        /\ (mismatches = <<>>) <=>
             \A k \in 1 .. Len(xml_doc.elems) :
                 Lower(SourceElem(k).tag) # "root" => Covered(SourceElem(k))
        /\ (\E k \in 1 .. Len(xml_doc.elems) : HasAbsentValue(SourceElem(k)))
             => mismatches # <<>>

\* C6, amended: zero mismatches exactly when every source element whose tag is
\* not "root" (in any case) has its tag and all its attribute values in the
\* output; in particular an attribute value absent from the output on an
\* element whose tag is not "root" yields at least one mismatch.
C6_ZeroMismatchesIffCovered ==
    Scanned =>
        /\ (mismatches = <<>>) <=>
             \A k \in 1 .. Len(xml_doc.elems) :
                 Lower(SourceElem(k).tag) # "root" => Covered(SourceElem(k))
        /\ (\E k \in 1 .. Len(xml_doc.elems) :
               Lower(SourceElem(k).tag) # "root" /\ HasAbsentValue(SourceElem(k)))
             => mismatches # <<>>
        /\ verdict = IF mismatches = <<>> THEN "successful" ELSE "failed"

C6_Witness ==
    /\ Scanned
    /\ Len(xml_doc.elems) = 2
    /\ SourceElem(1).tag = "Root"
    /\ HasAbsentValue(SourceElem(1))
    /\ SourceElem(2).tag = "A"
    /\ SourceElem(2).attrib # <<>>
    /\ mismatches = <<>>
    /\ verdict = "successful"

---------------------------------------------------------------------------
\* Properties of the batches (SpecBatch).

\* C9: in the conversion batch and in the validation batch a parse failure on
\* a malformed file ends the processing of that file (or pair) only: the
\* process does not terminate, and every other file is processed.
C9_ParseFailureEndsOneFileOnly ==
    /\ bpc # "crashed"
    /\ (bpc = "finished" /\ entry = "main_program") =>
           \A k \in 1 .. Len(files) : files[k].ok => k \in converted
    /\ bpc = "finished" =>
           \A k \in 1 .. Len(files) : verdicts[k] # "none"

\* The shapes of the document that the dispatch of parse_xml recognizes.
RecognizedShapes(f) ==
    {k \in 1 .. Len(f.shapes) :
        f.shapes[k] \in {"CRectangle", "CTextBox", "CPolygon", "CParallelogram"}}

\* C11: in main_program a well-formed document with no ViewObject or with no
\* recognized shape has no output file written for it, has a warning and no
\* error logged for it, and the loop goes on to the next file; and the pass
\* over a document writes its output file exactly when parse_xml returned at
\* least one element.
C11_NoShapesMeansWarningAndNoFile ==
    [][(bpc = "convert" /\ fi < Len(files)) =>
          LET k == fi + 1 IN
          /\ (files[k].ok /\ RecognizedShapes(files[k]) = {}) =>
                 /\ outputs' = outputs
                 /\ [level |-> "warning", what |-> "No shapes found", file |-> k]
                        \in blog'
                 /\ \A e \in blog' : e.file = k => e.level # "error"
                 /\ bexc' = "none"
                 /\ bpc' = "convert"
                 /\ fi' = k
          /\ (outputs'[k] # outputs[k]) =>
                 /\ fi' = k
                 /\ ParseXmlRaises(files[k]) = "none"
                 /\ ParseXmlReturns(files[k].shapes, files[k].sysname) # <<>>
          /\ (fi' = k /\ ParseXmlReturns(files[k].shapes, files[k].sysname) # <<>>) =>
                 outputs'[k] = WrittenFile(ParseXmlReturns(files[k].shapes, files[k].sysname))]_vars

\* The elements parse_xml returns for file k.
Emitted(k) == ParseXmlReturns(files[k].shapes, files[k].sysname)

\* The mismatches validate_conversion records for file k and its output.
MismatchesOf(k) ==
    LET ms == AllMismatches(SourceDocOf(files[k]).elems,
                            TagsOf(outputs[k].elems), ValuesOf(outputs[k].elems))
    IN {ms[i] : i \in 1 .. Len(ms)}

\* C14: for a source document from which parse_xml emitted at least one
\* element, the validation of the source against the file main_program wrote
\* never reports success: the output does not parse and an error is reported,
\* or a "Missing tag" mismatch is recorded, the output's tags being among
\* Rectangle, TextBlock and Polygon and the source holding a ViewObject.
C14_ValidationNeverSucceedsOnWrittenFile ==
    \A k \in 1 .. Len(files) :
        (/\ entry = "main_program"
         /\ k \in converted
         /\ Emitted(k) # <<>>
         /\ verdicts[k] # "none") =>
            /\ outputs[k] = WrittenFile(Emitted(k))
            /\ verdicts[k] \in {"error", "failed"}
            /\ [level |-> "info", what |-> "Validation", file |-> k] \notin blog
            /\ IF outputs[k].ok
               THEN /\ verdicts[k] = "failed"
                    /\ TagsOf(outputs[k].elems) \subseteq
                           {"Rectangle", "TextBlock", "Polygon"}
                    /\ [kind |-> "Missing tag", tag |-> "ViewObject"]
                           \in MismatchesOf(k)
               ELSE /\ verdicts[k] = "error"
                    /\ [level |-> "error", what |-> "Validation", file |-> k]
                           \in blog

\* main_program has finished on a file that gave one element and a file that
\* gave two: the first validation failed, the second reported an error.
C14_Witness ==
    /\ entry = "main_program" /\ bpc = "finished"
    /\ Len(files) = 2
    /\ Len(Emitted(1)) = 1 /\ outputs[1].ok
    /\ Len(Emitted(2)) = 2 /\ ~outputs[2].ok
    /\ verdicts = <<"failed", "error">>

---------------------------------------------------------------------------
\* Properties of choose_match (SpecChoose).

\* The text, stripped, is a decimal number in 1 .. n.
IsOrdinal(t, n) ==
    LET c == Strip(t) IN
    /\ c # <<>>
    /\ \A i \in 1 .. Len(c) : c[i] \in Digits
    /\ DigitsValue(c) \in 1 .. n

\* C10: with no candidate choose_match returns (None, None) without a prompt;
\* with one it returns that candidate without a prompt; with more it returns
\* only on an input that is a number in 1 .. n, and then the candidate at that
\* ordinal, and every other input leaves the candidates as they are and leads
\* to another prompt.
C10_ChooseMatchByOrdinal ==
    [][/\ (cpc = "call" /\ matches = <<>>) =>
              /\ cpc' = "returned"
              /\ chosen' = [val |-> None, id |-> "None"]
              /\ prompts' = 0
       /\ (cpc = "call" /\ Len(matches) = 1) =>
              /\ cpc' = "returned"
              /\ chosen' = [val |-> matches[1].val, id |-> matches[1].id]
              /\ prompts' = 0
       /\ (cpc = "call" /\ Len(matches) > 1) => cpc' = "prompt"
       /\ cpc = "prompt" =>
              /\ matches' = matches
              /\ IF IsOrdinal(choice', Len(matches))
                 THEN /\ cpc' = "returned"
                      /\ chosen' =
                           [val |-> matches[DigitsValue(Strip(choice'))].val,
                            id |-> matches[DigitsValue(Strip(choice'))].id]
                 ELSE cpc' = "prompt"]_vars

====
